---- MODULE Spec2Model ----
(***************************************************************************)
(* A model of src/main.py, the FastAPI text-to-speech server: the request  *)
(* validation (TTSRequest), the handlers of GET /, GET /health,            *)
(* GET /voices, POST /tts and POST /tts/base64, the voice catalog filter   *)
(* (get_supported_voices) and the activity logger (log_activity) with its  *)
(* connection pool.                                                        *)
(*                                                                         *)
(* The server runs on one event loop: the code between two awaits is one   *)
(* atomic step.  The external synthesize and list_voices calls are         *)
(* synchronous calls, so a handler runs atomically up to the first await   *)
(* inside log_activity (db_pool.acquire()).                                *)
(*                                                                         *)
(* Strings that the code parses are tuples of one-character strings.       *)
(* Floats are integers in hundredths (0.25 is 25, -20.0 is -2000).         *)
(***************************************************************************)
EXTENDS Integers, Sequences, FiniteSets, TLC

\* ------------------------------------------------------------------ bounds

\* Concurrent requests of the main specification.
NumReqs == 1
\* Concurrent requests of the pool specification (more than max_size).
PoolReqs == 6
\* Longest voice catalog returned by the external list_voices call.
MaxVoices == 2
\* Most locale codes of one catalog voice.
MaxLocales == 2

\* ------------------------------------------------------- program constants

\* asyncpg.create_pool(max_size=5)
max_size == 5
\* text: Field(..., min_length=1, max_length=5000)
min_length == 1
max_length == 5000
\* speed: Field(1.0, ge=0.25, le=4.0), in hundredths
speed_ge == 25
speed_le == 400
\* pitch: Field(0.0, ge=-20.0, le=20.0), in hundredths
pitch_ge == -2000
pitch_le == 2000

\* ----------------------------------------------------------------- strings

\* A string is the sequence of its code points: "en-US" is
\* << 101, 110, 45, 85, 83 >>.

\* The simple lower-case mappings of the Unicode database that str.lower()
\* reads: << first, last, step, delta >> maps every code point
\* first, first + step, ..., last to itself plus delta.
ToLower ==
  << <<65,90,1,32>>, <<192,214,1,32>>, <<216,222,1,32>>, <<256,302,2,1>>,
     <<306,310,2,1>>, <<313,327,2,1>>, <<330,374,2,1>>, <<376,376,1,-121>>,
     <<377,381,2,1>>, <<385,385,1,210>>, <<386,388,2,1>>, <<390,390,1,206>>,
     <<391,391,1,1>>, <<393,394,1,205>>, <<395,395,1,1>>, <<398,398,1,79>>,
     <<399,399,1,202>>, <<400,400,1,203>>, <<401,401,1,1>>, <<403,403,1,205>>,
     <<404,404,1,207>>, <<406,406,1,211>>, <<407,407,1,209>>, <<408,408,1,1>>,
     <<412,412,1,211>>, <<413,413,1,213>>, <<415,415,1,214>>, <<416,420,2,1>>,
     <<422,422,1,218>>, <<423,423,1,1>>, <<425,425,1,218>>, <<428,428,1,1>>,
     <<430,430,1,218>>, <<431,431,1,1>>, <<433,434,1,217>>, <<435,437,2,1>>,
     <<439,439,1,219>>, <<440,440,1,1>>, <<444,444,1,1>>, <<452,452,1,2>>,
     <<453,453,1,1>>, <<455,455,1,2>>, <<456,456,1,1>>, <<458,458,1,2>>,
     <<459,475,2,1>>, <<478,494,2,1>>, <<497,497,1,2>>, <<498,500,2,1>>,
     <<502,502,1,-97>>, <<503,503,1,-56>>, <<504,542,2,1>>, <<544,544,1,-130>>,
     <<546,562,2,1>>, <<570,570,1,10795>>, <<571,571,1,1>>, <<573,573,1,-163>>,
     <<574,574,1,10792>>, <<577,577,1,1>>, <<579,579,1,-195>>, <<580,580,1,69>>,
     <<581,581,1,71>>, <<582,590,2,1>>, <<880,882,2,1>>, <<886,886,1,1>>,
     <<895,895,1,116>>, <<902,902,1,38>>, <<904,906,1,37>>, <<908,908,1,64>>,
     <<910,911,1,63>>, <<913,929,1,32>>, <<931,939,1,32>>, <<975,975,1,8>>,
     <<984,1006,2,1>>, <<1012,1012,1,-60>>, <<1015,1015,1,1>>, <<1017,1017,1,-7>>,
     <<1018,1018,1,1>>, <<1021,1023,1,-130>>, <<1024,1039,1,80>>, <<1040,1071,1,32>>,
     <<1120,1152,2,1>>, <<1162,1214,2,1>>, <<1216,1216,1,15>>, <<1217,1229,2,1>>,
     <<1232,1326,2,1>>, <<1329,1366,1,48>>, <<4256,4293,1,7264>>, <<4295,4295,1,7264>>,
     <<4301,4301,1,7264>>, <<5024,5103,1,38864>>, <<5104,5109,1,8>>, <<7312,7354,1,-3008>>,
     <<7357,7359,1,-3008>>, <<7680,7828,2,1>>, <<7838,7838,1,-7615>>, <<7840,7934,2,1>>,
     <<7944,7951,1,-8>>, <<7960,7965,1,-8>>, <<7976,7983,1,-8>>, <<7992,7999,1,-8>>,
     <<8008,8013,1,-8>>, <<8025,8031,2,-8>>, <<8040,8047,1,-8>>, <<8072,8079,1,-8>>,
     <<8088,8095,1,-8>>, <<8104,8111,1,-8>>, <<8120,8121,1,-8>>, <<8122,8123,1,-74>>,
     <<8124,8124,1,-9>>, <<8136,8139,1,-86>>, <<8140,8140,1,-9>>, <<8152,8153,1,-8>>,
     <<8154,8155,1,-100>>, <<8168,8169,1,-8>>, <<8170,8171,1,-112>>, <<8172,8172,1,-7>>,
     <<8184,8185,1,-128>>, <<8186,8187,1,-126>>, <<8188,8188,1,-9>>, <<8486,8486,1,-7517>>,
     <<8490,8490,1,-8383>>, <<8491,8491,1,-8262>>, <<8498,8498,1,28>>, <<8544,8559,1,16>>,
     <<8579,8579,1,1>>, <<9398,9423,1,26>>, <<11264,11311,1,48>>, <<11360,11360,1,1>>,
     <<11362,11362,1,-10743>>, <<11363,11363,1,-3814>>, <<11364,11364,1,-10727>>, <<11367,11371,2,1>>,
     <<11373,11373,1,-10780>>, <<11374,11374,1,-10749>>, <<11375,11375,1,-10783>>, <<11376,11376,1,-10782>>,
     <<11378,11378,1,1>>, <<11381,11381,1,1>>, <<11390,11391,1,-10815>>, <<11392,11490,2,1>>,
     <<11499,11501,2,1>>, <<11506,11506,1,1>>, <<42560,42604,2,1>>, <<42624,42650,2,1>>,
     <<42786,42798,2,1>>, <<42802,42862,2,1>>, <<42873,42875,2,1>>, <<42877,42877,1,-35332>>,
     <<42878,42886,2,1>>, <<42891,42891,1,1>>, <<42893,42893,1,-42280>>, <<42896,42898,2,1>>,
     <<42902,42920,2,1>>, <<42922,42922,1,-42308>>, <<42923,42923,1,-42319>>, <<42924,42924,1,-42315>>,
     <<42925,42925,1,-42305>>, <<42926,42926,1,-42308>>, <<42928,42928,1,-42258>>, <<42929,42929,1,-42282>>,
     <<42930,42930,1,-42261>>, <<42931,42931,1,928>>, <<42932,42946,2,1>>, <<42948,42948,1,-48>>,
     <<42949,42949,1,-42307>>, <<42950,42950,1,-35384>>, <<42951,42953,2,1>>, <<42960,42960,1,1>>,
     <<42966,42968,2,1>>, <<42997,42997,1,1>>, <<65313,65338,1,32>>, <<66560,66599,1,40>>,
     <<66736,66771,1,40>>, <<66928,66938,1,39>>, <<66940,66954,1,39>>, <<66956,66962,1,39>>,
     <<66964,66965,1,39>>, <<68736,68786,1,64>>, <<71840,71871,1,32>>, <<93760,93791,1,32>>,
     <<125184,125217,1,34>> >>

\* The code points with the Cased property, as ranges << first, last >>.
Cased ==
  << <<65,90>>, <<97,122>>, <<170,170>>, <<181,181>>, <<186,186>>,
     <<192,214>>, <<216,246>>, <<248,442>>, <<444,447>>, <<452,659>>,
     <<661,696>>, <<704,705>>, <<736,740>>, <<837,837>>, <<880,883>>,
     <<886,887>>, <<890,893>>, <<895,895>>, <<902,902>>, <<904,906>>,
     <<908,908>>, <<910,929>>, <<931,1013>>, <<1015,1153>>, <<1162,1327>>,
     <<1329,1366>>, <<1376,1416>>, <<4256,4293>>, <<4295,4295>>, <<4301,4301>>,
     <<4304,4346>>, <<4349,4351>>, <<5024,5109>>, <<5112,5117>>, <<7296,7304>>,
     <<7312,7354>>, <<7357,7359>>, <<7424,7615>>, <<7680,7957>>, <<7960,7965>>,
     <<7968,8005>>, <<8008,8013>>, <<8016,8023>>, <<8025,8025>>, <<8027,8027>>,
     <<8029,8029>>, <<8031,8061>>, <<8064,8116>>, <<8118,8124>>, <<8126,8126>>,
     <<8130,8132>>, <<8134,8140>>, <<8144,8147>>, <<8150,8155>>, <<8160,8172>>,
     <<8178,8180>>, <<8182,8188>>, <<8305,8305>>, <<8319,8319>>, <<8336,8348>>,
     <<8450,8450>>, <<8455,8455>>, <<8458,8467>>, <<8469,8469>>, <<8473,8477>>,
     <<8484,8484>>, <<8486,8486>>, <<8488,8488>>, <<8490,8493>>, <<8495,8500>>,
     <<8505,8505>>, <<8508,8511>>, <<8517,8521>>, <<8526,8526>>, <<8544,8575>>,
     <<8579,8580>>, <<9398,9449>>, <<11264,11492>>, <<11499,11502>>, <<11506,11507>>,
     <<11520,11557>>, <<11559,11559>>, <<11565,11565>>, <<42560,42605>>, <<42624,42653>>,
     <<42786,42887>>, <<42891,42894>>, <<42896,42954>>, <<42960,42961>>, <<42963,42963>>,
     <<42965,42969>>, <<42997,42998>>, <<43000,43002>>, <<43824,43866>>, <<43868,43880>>,
     <<43888,43967>>, <<64256,64262>>, <<64275,64279>>, <<65313,65338>>, <<65345,65370>>,
     <<66560,66639>>, <<66736,66771>>, <<66776,66811>>, <<66928,66938>>, <<66940,66954>>,
     <<66956,66962>>, <<66964,66965>>, <<66967,66977>>, <<66979,66993>>, <<66995,67001>>,
     <<67003,67004>>, <<67456,67456>>, <<67459,67461>>, <<67463,67504>>, <<67506,67514>>,
     <<68736,68786>>, <<68800,68850>>, <<71840,71903>>, <<93760,93823>>, <<119808,119892>>,
     <<119894,119964>>, <<119966,119967>>, <<119970,119970>>, <<119973,119974>>, <<119977,119980>>,
     <<119982,119993>>, <<119995,119995>>, <<119997,120003>>, <<120005,120069>>, <<120071,120074>>,
     <<120077,120084>>, <<120086,120092>>, <<120094,120121>>, <<120123,120126>>, <<120128,120132>>,
     <<120134,120134>>, <<120138,120144>>, <<120146,120485>>, <<120488,120512>>, <<120514,120538>>,
     <<120540,120570>>, <<120572,120596>>, <<120598,120628>>, <<120630,120654>>, <<120656,120686>>,
     <<120688,120712>>, <<120714,120744>>, <<120746,120770>>, <<120772,120779>>, <<122624,122633>>,
     <<122635,122654>>, <<125184,125251>>, <<127280,127305>>, <<127312,127337>>, <<127344,127369>> >>

\* The code points with the Case_Ignorable property, as ranges
\* << first, last >>.
CaseIgnorable ==
  << <<39,39>>, <<46,46>>, <<58,58>>, <<94,94>>, <<96,96>>,
     <<168,168>>, <<173,173>>, <<175,175>>, <<180,180>>, <<183,184>>,
     <<688,879>>, <<884,885>>, <<890,890>>, <<900,901>>, <<903,903>>,
     <<1155,1161>>, <<1369,1369>>, <<1375,1375>>, <<1425,1469>>, <<1471,1471>>,
     <<1473,1474>>, <<1476,1477>>, <<1479,1479>>, <<1524,1524>>, <<1536,1541>>,
     <<1552,1562>>, <<1564,1564>>, <<1600,1600>>, <<1611,1631>>, <<1648,1648>>,
     <<1750,1757>>, <<1759,1768>>, <<1770,1773>>, <<1807,1807>>, <<1809,1809>>,
     <<1840,1866>>, <<1958,1968>>, <<2027,2037>>, <<2042,2042>>, <<2045,2045>>,
     <<2070,2093>>, <<2137,2139>>, <<2184,2184>>, <<2192,2193>>, <<2200,2207>>,
     <<2249,2306>>, <<2362,2362>>, <<2364,2364>>, <<2369,2376>>, <<2381,2381>>,
     <<2385,2391>>, <<2402,2403>>, <<2417,2417>>, <<2433,2433>>, <<2492,2492>>,
     <<2497,2500>>, <<2509,2509>>, <<2530,2531>>, <<2558,2558>>, <<2561,2562>>,
     <<2620,2620>>, <<2625,2626>>, <<2631,2632>>, <<2635,2637>>, <<2641,2641>>,
     <<2672,2673>>, <<2677,2677>>, <<2689,2690>>, <<2748,2748>>, <<2753,2757>>,
     <<2759,2760>>, <<2765,2765>>, <<2786,2787>>, <<2810,2815>>, <<2817,2817>>,
     <<2876,2876>>, <<2879,2879>>, <<2881,2884>>, <<2893,2893>>, <<2901,2902>>,
     <<2914,2915>>, <<2946,2946>>, <<3008,3008>>, <<3021,3021>>, <<3072,3072>>,
     <<3076,3076>>, <<3132,3132>>, <<3134,3136>>, <<3142,3144>>, <<3146,3149>>,
     <<3157,3158>>, <<3170,3171>>, <<3201,3201>>, <<3260,3260>>, <<3263,3263>>,
     <<3270,3270>>, <<3276,3277>>, <<3298,3299>>, <<3328,3329>>, <<3387,3388>>,
     <<3393,3396>>, <<3405,3405>>, <<3426,3427>>, <<3457,3457>>, <<3530,3530>>,
     <<3538,3540>>, <<3542,3542>>, <<3633,3633>>, <<3636,3642>>, <<3654,3662>>,
     <<3761,3761>>, <<3764,3772>>, <<3782,3782>>, <<3784,3789>>, <<3864,3865>>,
     <<3893,3893>>, <<3895,3895>>, <<3897,3897>>, <<3953,3966>>, <<3968,3972>>,
     <<3974,3975>>, <<3981,3991>>, <<3993,4028>>, <<4038,4038>>, <<4141,4144>>,
     <<4146,4151>>, <<4153,4154>>, <<4157,4158>>, <<4184,4185>>, <<4190,4192>>,
     <<4209,4212>>, <<4226,4226>>, <<4229,4230>>, <<4237,4237>>, <<4253,4253>>,
     <<4348,4348>>, <<4957,4959>>, <<5906,5908>>, <<5938,5939>>, <<5970,5971>>,
     <<6002,6003>>, <<6068,6069>>, <<6071,6077>>, <<6086,6086>>, <<6089,6099>>,
     <<6103,6103>>, <<6109,6109>>, <<6155,6159>>, <<6211,6211>>, <<6277,6278>>,
     <<6313,6313>>, <<6432,6434>>, <<6439,6440>>, <<6450,6450>>, <<6457,6459>>,
     <<6679,6680>>, <<6683,6683>>, <<6742,6742>>, <<6744,6750>>, <<6752,6752>>,
     <<6754,6754>>, <<6757,6764>>, <<6771,6780>>, <<6783,6783>>, <<6823,6823>>,
     <<6832,6862>>, <<6912,6915>>, <<6964,6964>>, <<6966,6970>>, <<6972,6972>>,
     <<6978,6978>>, <<7019,7027>>, <<7040,7041>>, <<7074,7077>>, <<7080,7081>>,
     <<7083,7085>>, <<7142,7142>>, <<7144,7145>>, <<7149,7149>>, <<7151,7153>>,
     <<7212,7219>>, <<7222,7223>>, <<7288,7293>>, <<7376,7378>>, <<7380,7392>>,
     <<7394,7400>>, <<7405,7405>>, <<7412,7412>>, <<7416,7417>>, <<7468,7530>>,
     <<7544,7544>>, <<7579,7679>>, <<8125,8125>>, <<8127,8129>>, <<8141,8143>>,
     <<8157,8159>>, <<8173,8175>>, <<8189,8190>>, <<8203,8207>>, <<8216,8217>>,
     <<8228,8228>>, <<8231,8231>>, <<8234,8238>>, <<8288,8292>>, <<8294,8303>>,
     <<8305,8305>>, <<8319,8319>>, <<8336,8348>>, <<8400,8432>>, <<11388,11389>>,
     <<11503,11505>>, <<11631,11631>>, <<11647,11647>>, <<11744,11775>>, <<11823,11823>>,
     <<12293,12293>>, <<12330,12333>>, <<12337,12341>>, <<12347,12347>>, <<12441,12446>>,
     <<12540,12542>>, <<40981,40981>>, <<42232,42237>>, <<42508,42508>>, <<42607,42610>>,
     <<42612,42621>>, <<42623,42623>>, <<42652,42655>>, <<42736,42737>>, <<42752,42785>>,
     <<42864,42864>>, <<42888,42890>>, <<42994,42996>>, <<43000,43001>>, <<43010,43010>>,
     <<43014,43014>>, <<43019,43019>>, <<43045,43046>>, <<43052,43052>>, <<43204,43205>>,
     <<43232,43249>>, <<43263,43263>>, <<43302,43309>>, <<43335,43345>>, <<43392,43394>>,
     <<43443,43443>>, <<43446,43449>>, <<43452,43453>>, <<43471,43471>>, <<43493,43494>>,
     <<43561,43566>>, <<43569,43570>>, <<43573,43574>>, <<43587,43587>>, <<43596,43596>>,
     <<43632,43632>>, <<43644,43644>>, <<43696,43696>>, <<43698,43700>>, <<43703,43704>>,
     <<43710,43711>>, <<43713,43713>>, <<43741,43741>>, <<43756,43757>>, <<43763,43764>>,
     <<43766,43766>>, <<43867,43871>>, <<43881,43883>>, <<44005,44005>>, <<44008,44008>>,
     <<44013,44013>>, <<64286,64286>>, <<64434,64450>>, <<65024,65039>>, <<65043,65043>>,
     <<65056,65071>>, <<65106,65106>>, <<65109,65109>>, <<65279,65279>>, <<65287,65287>>,
     <<65294,65294>>, <<65306,65306>>, <<65342,65342>>, <<65344,65344>>, <<65392,65392>>,
     <<65438,65439>>, <<65507,65507>>, <<65529,65531>>, <<66045,66045>>, <<66272,66272>>,
     <<66422,66426>>, <<67456,67461>>, <<67463,67504>>, <<67506,67514>>, <<68097,68099>>,
     <<68101,68102>>, <<68108,68111>>, <<68152,68154>>, <<68159,68159>>, <<68325,68326>>,
     <<68900,68903>>, <<69291,69292>>, <<69446,69456>>, <<69506,69509>>, <<69633,69633>>,
     <<69688,69702>>, <<69744,69744>>, <<69747,69748>>, <<69759,69761>>, <<69811,69814>>,
     <<69817,69818>>, <<69821,69821>>, <<69826,69826>>, <<69837,69837>>, <<69888,69890>>,
     <<69927,69931>>, <<69933,69940>>, <<70003,70003>>, <<70016,70017>>, <<70070,70078>>,
     <<70089,70092>>, <<70095,70095>>, <<70191,70193>>, <<70196,70196>>, <<70198,70199>>,
     <<70206,70206>>, <<70367,70367>>, <<70371,70378>>, <<70400,70401>>, <<70459,70460>>,
     <<70464,70464>>, <<70502,70508>>, <<70512,70516>>, <<70712,70719>>, <<70722,70724>>,
     <<70726,70726>>, <<70750,70750>>, <<70835,70840>>, <<70842,70842>>, <<70847,70848>>,
     <<70850,70851>>, <<71090,71093>>, <<71100,71101>>, <<71103,71104>>, <<71132,71133>>,
     <<71219,71226>>, <<71229,71229>>, <<71231,71232>>, <<71339,71339>>, <<71341,71341>>,
     <<71344,71349>>, <<71351,71351>>, <<71453,71455>>, <<71458,71461>>, <<71463,71467>>,
     <<71727,71735>>, <<71737,71738>>, <<71995,71996>>, <<71998,71998>>, <<72003,72003>>,
     <<72148,72151>>, <<72154,72155>>, <<72160,72160>>, <<72193,72202>>, <<72243,72248>>,
     <<72251,72254>>, <<72263,72263>>, <<72273,72278>>, <<72281,72283>>, <<72330,72342>>,
     <<72344,72345>>, <<72752,72758>>, <<72760,72765>>, <<72767,72767>>, <<72850,72871>>,
     <<72874,72880>>, <<72882,72883>>, <<72885,72886>>, <<73009,73014>>, <<73018,73018>>,
     <<73020,73021>>, <<73023,73029>>, <<73031,73031>>, <<73104,73105>>, <<73109,73109>>,
     <<73111,73111>>, <<73459,73460>>, <<78896,78904>>, <<92912,92916>>, <<92976,92982>>,
     <<92992,92995>>, <<94031,94031>>, <<94095,94111>>, <<94176,94177>>, <<94179,94180>>,
     <<110576,110579>>, <<110581,110587>>, <<110589,110590>>, <<113821,113822>>, <<113824,113827>>,
     <<118528,118573>>, <<118576,118598>>, <<119143,119145>>, <<119155,119170>>, <<119173,119179>>,
     <<119210,119213>>, <<119362,119364>>, <<121344,121398>>, <<121403,121452>>, <<121461,121461>>,
     <<121476,121476>>, <<121499,121503>>, <<121505,121519>>, <<122880,122886>>, <<122888,122904>>,
     <<122907,122913>>, <<122915,122916>>, <<122918,122922>>, <<123184,123197>>, <<123566,123566>>,
     <<123628,123631>>, <<125136,125142>>, <<125252,125259>>, <<127995,127999>>, <<917505,917505>>,
     <<917536,917631>>, <<917760,917999>> >>

IsCased(c) ==
  \E k \in 1..Len(Cased) : Cased[k][1] <= c /\ c <= Cased[k][2]

IsCaseIgnorable(c) ==
  \E k \in 1..Len(CaseIgnorable) :
    CaseIgnorable[k][1] <= c /\ c <= CaseIgnorable[k][2]

\* str.lower() on one code point other than capital sigma: the code points
\* that replace it.  ASCII takes the short path; U+0130 is the one code point
\* whose lower case has two code points.
lower_char(c) ==
  LET hit(k) == /\ ToLower[k][1] <= c
                /\ c <= ToLower[k][2]
                /\ (c - ToLower[k][1]) % ToLower[k][3] = 0
  IN  IF c < 128
      THEN IF 65 <= c /\ c <= 90 THEN << c + 32 >> ELSE << c >>
      ELSE IF c = 304 THEN << 105, 775 >>
      ELSE IF \E k \in 1..Len(ToLower) : hit(k)
           THEN << c + ToLower[CHOOSE k \in 1..Len(ToLower) : hit(k)][4] >>
           ELSE << c >>

\* The lower case of the capital sigma at position i of s: final sigma
\* (U+03C2) when, case-ignorable code points skipped, a cased code point
\* comes before it and none comes after it; sigma (U+03C3) otherwise.
handle_capital_sigma(s, i) ==
  LET before == { j \in 1..(i - 1) : ~IsCaseIgnorable(s[j]) }
      after  == { j \in (i + 1)..Len(s) : ~IsCaseIgnorable(s[j]) }
      last   == CHOOSE j \in before : \A k \in before : k <= j
      first  == CHOOSE j \in after : \A k \in after : j <= k
      final_sigma ==
        /\ before # {}
        /\ IsCased(s[last])
        /\ after = {} \/ ~IsCased(s[first])
  IN  IF final_sigma THEN 962 ELSE 963

\* The lower case of s from position i on.
RECURSIVE do_lower(_, _)
do_lower(s, i) ==
  IF i > Len(s) THEN <<>>
  ELSE ( IF s[i] = 931
         THEN << handle_capital_sigma(s, i) >>
         ELSE lower_char(s[i]) ) \o do_lower(s, i + 1)

\* str.lower()
lower(s) == do_lower(s, 1)

\* str.split(sep), sep one code point: the maximal segments between separators ("".split gives [""]).
RECURSIVE split(_, _)
split(s, sep) ==
  IF \A i \in 1..Len(s) : s[i] # sep
  THEN << s >>
  ELSE LET k == CHOOSE i \in 1..Len(s) :
                  s[i] = sep /\ \A j \in 1..(i - 1) : s[j] # sep
       IN  << SubSeq(s, 1, k - 1) >> \o split(SubSeq(s, k + 1, Len(s)), sep)

\* extract_language_code: the first two "-" segments joined by "-", else "en-US".
extract_language_code(voice_name) ==
  LET parts == split(voice_name, 45)
  IN  IF Len(parts) >= 2
      THEN parts[1] \o << 45 >> \o parts[2]
      ELSE << 101, 110, 45, 85, 83 >>

\* ------------------------------------------------------ voice catalog filter

\* supported_languages = ["en", "ru", "he"]
supported_languages ==
  { << 101, 110 >>, << 114, 117 >>, << 104, 101 >> }

\* language_code.split('-')[0].lower() in supported_languages
lang_supported(language_code) ==
  lower(split(language_code, 45)[1]) \in supported_languages

\* The inner loop over voice.language_codes without its break: every matching
\* locale code appends an entry.
RECURSIVE inner_loop_no_break(_)
inner_loop_no_break(codes) ==
  IF codes = <<>> THEN <<>>
  ELSE IF lang_supported(Head(codes))
       THEN << Head(codes) >> \o inner_loop_no_break(Tail(codes))
       ELSE inner_loop_no_break(Tail(codes))

\* The inner loop over voice.language_codes: the locale codes for which an
\* entry is appended.  The break ends the loop at the first match.
RECURSIVE inner_loop(_)
inner_loop(codes) ==
  IF codes = <<>> THEN <<>>
  ELSE IF lang_supported(Head(codes))
       THEN << Head(codes) >>
       ELSE inner_loop(Tail(codes))

\* VoiceInfo(name, language_code, gender, natural_sample_rate)
VoiceInfo(voice, language_code) ==
  [ name                |-> voice.name,
    language_code       |-> language_code,
    gender              |-> voice.ssml_gender,
    natural_sample_rate |-> voice.natural_sample_rate_hertz ]

\* The outer loop over voices_response.voices.
RECURSIVE filter_voices(_)
filter_voices(voices) ==
  IF voices = <<>> THEN <<>>
  ELSE LET v     == Head(voices)
           codes == inner_loop(v.language_codes)
       IN  [ i \in 1..Len(codes) |-> VoiceInfo(v, codes[i]) ]
             \o filter_voices(Tail(voices))

\* get_supported_voices(): [] without a client; [] when the external
\* list_voices call raises anything (the except clause swallows it); the
\* filtered catalog otherwise.  "raised" is what propagates to the caller.
get_supported_voices(client, outcome, catalog) ==
  IF client = "None" THEN [ raised |-> "none", voices |-> <<>> ]
  ELSE IF outcome # "ok" THEN [ raised |-> "none", voices |-> <<>> ]
  ELSE [ raised |-> "none", voices |-> filter_voices(catalog) ]

\* ------------------------------------------------------------ request inputs

\* A text is its length profile: `lead` whitespace characters, then `body`
\* characters that start and end with a non-whitespace character, then
\* `trail` whitespace characters.  A whitespace-only text has body = 0 and
\* all of its whitespace counted in `lead`.  `given` is FALSE when the JSON
\* body has no "text" field.
NoText == [ given |-> FALSE, lead |-> 0, body |-> 0, trail |-> 0 ]

Text(l, b, t) == [ given |-> TRUE, lead |-> l, body |-> b, trail |-> t ]

\* len(text)
text_len(text) == text.lead + text.body + text.trail

\* text.strip()
strip(text) == [ text EXCEPT !.lead = 0, !.trail = 0 ]

\* not text or not text.strip(): the text is None, "" or whitespace only.
blank(text) == ~text.given \/ text_len(text) = 0 \/ text_len(strip(text)) = 0

\* "", " ", "a", " a ", a text of max_length characters and one longer.
Texts ==
  { NoText, Text(0, 0, 0), Text(1, 0, 0), Text(0, 1, 0), Text(1, 1, 1),
    Text(0, max_length, 0), Text(0, max_length + 1, 0) }

NoVoice == [ given |-> FALSE, id |-> <<>> ]

\* voice "en-US-Std-A", or no "voice" field.
Voices ==
  { NoVoice,
    [ given |-> TRUE,
      id |-> << 101, 110, 45, 85, 83, 45, 83, 116, 100, 45, 65 >> ] }

Speeds == { speed_ge - 1, speed_ge, speed_le + 1 }

Pitches == { pitch_ge - 1, pitch_le, pitch_le + 1 }

\* The JSON bodies posted to /tts and /tts/base64.
Bodies == [ text : Texts, voice : Voices, speed : Speeds, pitch : Pitches ]

NoBody == [ text |-> NoText, voice |-> NoVoice, speed |-> 0, pitch |-> 0 ]

\* One body that passes validation, for the pool specification: voice "x".
PoolBodies ==
  { [ text |-> Text(0, 1, 0),
      voice |-> [ given |-> TRUE, id |-> << 120 >> ],
      speed |-> speed_ge, pitch |-> pitch_le ] }

\* ---------------------------------------------------------------- validator

\* TTSRequest.validate_text_field(values): rejects a blank text, strips the
\* text otherwise.  "ok" is FALSE where the code raises ValueError.
validate_text_field(values) ==
  IF blank(values.text)
  THEN [ ok |-> FALSE, values |-> values ]
  ELSE [ ok |-> TRUE, values |-> [ values EXCEPT !.text = strip(@) ] ]

\* The declared fields of TTSRequest without the range of speed.
fields_valid_any_speed(body) ==
  /\ body.text.given
  /\ text_len(body.text) >= min_length
  /\ text_len(body.text) <= max_length
  /\ body.voice.given
  /\ body.pitch >= pitch_ge /\ body.pitch <= pitch_le

\* The declared fields of TTSRequest: text is required with
\* min_length <= len(text) <= max_length, voice is required, speed and pitch
\* lie in their closed ranges.
fields_valid(body) ==
  /\ body.text.given
  /\ text_len(body.text) >= min_length
  /\ text_len(body.text) <= max_length
  /\ body.voice.given
  /\ body.speed >= speed_ge /\ body.speed <= speed_le
  /\ body.pitch >= pitch_ge /\ body.pitch <= pitch_le

\* TTSRequest(**body) as FastAPI builds it for the handler's `request`
\* parameter.  validate_text_field is reachable only through the
\* __get_validators__ classmethod, the pydantic 1 hook of a custom field
\* type; it carries no validator decorator.  The model validation that
\* pydantic 2 derives from the declared fields of a BaseModel never calls
\* that hook, so the request the handler receives is the body as posted,
\* checked against the field constraints only.
TTSRequest(body) == [ ok |-> fields_valid(body), request |-> body ]

\* ------------------------------------------------------------------- state

VARIABLES
  tts_client,    \* "client", or "None" when TextToSpeechClient() raised
  db_pool,       \* "None" before lifespan startup, "open" after it
  held,          \* connections acquired from db_pool and not yet released
  activity_log,  \* rows inserted into public.activity_log
  reqs           \* the requests: where each one is and what it has done

vars == << tts_client, db_pool, held, activity_log, reqs >>

Idle ==
  [ pc        |-> "idle",    \* idle, acquire, execute, release, done
    endpoint  |-> "none",
    body      |-> NoBody,    \* the JSON body posted
    request   |-> NoBody,    \* the TTSRequest handed to the handler
    synth     |-> "none",    \* outcome of the external synthesize call
    synth_args |-> <<>>,     \* arguments of each external synthesize call
    listed    |-> "none",    \* outcome of the external list_voices call
    catalog   |-> <<>>,      \* voices returned by the external list_voices call
    branch    |-> "none",    \* the try body or except clause that is running
    log_calls |-> <<>>,      \* the log_activity calls made, with their result
    insert_ok |-> FALSE,     \* whether conn.execute returned without raising
    http      |-> 0,         \* status of the response, 0 before there is one
    detail    |-> "",
    voices    |-> <<>> ]     \* body of the /voices response

Respond(q, code, detail) ==
  [ q EXCEPT !.pc = "done", !.http = code, !.detail = detail ]

\* ------------------------------------------------------------ log_activity

\* Outcomes of socket.gethostname() and of the two json.dumps calls.
Returns == { "ok", "raise" }

\* log_activity from its entry to its first await.  Without a pool it returns
\* at once ("noop").  socket.gethostname() runs before the try statement, so
\* what it raises leaves log_activity ("raised").  json.dumps runs inside the
\* try statement: what it raises is caught ("swallowed").  Otherwise the call
\* waits in db_pool.acquire() ("acquire").
log_activity_entry(pool, host, dumps) ==
  IF pool = "None" THEN "noop"
  ELSE IF host = "raise" THEN "raised"
  ELSE IF dumps = "raise" THEN "swallowed"
  ELSE "acquire"

\* Leaving `async with db_pool.acquire()` without giving the connection back
\* when conn.execute raised.
release_conn_leaky(h, insert_ok) == IF insert_ok THEN h - 1 ELSE h

\* Leaving `async with db_pool.acquire()`: the connection goes back to the
\* pool whether conn.execute returned or raised.
release_conn(h, insert_ok) == h - 1

\* ------------------------------------------------------------ orchestrator

\* The detail of the HTTPException of the last except clause.
generic_detail(endpoint) ==
  IF endpoint = "tts"
  THEN "Text-to-speech synthesis failed"
  ELSE "Text-to-speech base64 synthesis failed"

\* The try body or except clause that the outcome of the external synthesize
\* call selects; its name is the status it hands to log_activity.  An
\* InvalidArgument is a GoogleAPICallError too: its except clause comes first.
branch_of(outcome) ==
  CASE outcome = "ok"               -> "success"
    [] outcome = "invalid_argument" -> "invalid_argument"
    [] outcome = "api_error"        -> "api_error"
    [] OTHER                        -> "error"

\* What the handler does once its log_activity call has returned: the try body
\* returns the result, an except clause raises its HTTPException.
after_log(q) ==
  CASE q.branch = "success" -> Respond(q, 200, "")
    [] q.branch = "invalid_argument" ->
         Respond(q, 400, "Invalid voice or parameters: {e}")
    [] q.branch = "api_error" ->
         Respond(q, 503, "Google TTS API error: {e}")
    [] OTHER -> Respond(q, 500, generic_detail(q.endpoint))

\* The last log_activity call of q ends with `result`.
end_log(q, result) ==
  [ q EXCEPT !.log_calls[Len(q.log_calls)].result = result ]

\* An exception that no except clause of the handler catches: the framework
\* answers 500 Internal Server Error.
unhandled(q) == Respond(q, 500, "Internal Server Error")

\* `await log_activity(...)` in branch b, up to the first await of the call.
\* pc "raised" marks a call that raised into the handler.
call_log(q, b, pool, host, dumps) ==
  LET e    == log_activity_entry(pool, host, dumps)
      call == [ activity_type |-> q.endpoint,
                status        |-> b,
                request       |-> q.request,
                acquired      |-> 0,
                inserts       |-> 0,
                result        |-> IF e = "acquire" THEN "pending" ELSE e ]
      q1   == [ q EXCEPT !.branch = b, !.log_calls = Append(@, call) ]
  IN  CASE e = "acquire" -> [ q1 EXCEPT !.pc = "acquire" ]
        [] e = "raised"  -> [ q1 EXCEPT !.pc = "raised" ]
        [] OTHER         -> after_log(q1)

\* The handler from the external synthesize call on.  What log_activity raises
\* in the try body is caught by `except Exception`, whose clause calls
\* log_activity again; what it raises in an except clause leaves the handler.
run_handler(q, outcome, pool, h1, d1, h2, d2) ==
  LET args  == [ text          |-> q.request.text,
                 language_code |-> extract_language_code(q.request.voice.id),
                 name          |-> q.request.voice.id,
                 speaking_rate |-> q.request.speed,
                 pitch         |-> q.request.pitch ]
      q0    == [ q EXCEPT !.synth = outcome, !.synth_args = Append(@, args) ]
      first == call_log(q0, branch_of(outcome), pool, h1, d1)
  IN  IF first.pc # "raised" THEN first
      ELSE IF first.branch # "success" THEN unhandled(first)
      ELSE LET second == call_log(first, "error", pool, h2, d2)
           IN  IF second.pc = "raised" THEN unhandled(second) ELSE second

\* Outcomes of the external synthesize call: a response, InvalidArgument,
\* another GoogleAPICallError, any other exception.
SynthOutcomes == { "ok", "invalid_argument", "api_error", "exception" }

\* ----------------------------------------------------------- voice catalogs

\* Locale codes "eng-US", "EN-gb" and "he".
Locales ==
  { << 101, 110, 103, 45, 85, 83 >>, << 69, 78, 45, 103, 98 >>,
    << 104, 101 >> }

LocaleLists == UNION { [1..n -> Locales] : n \in 0..MaxLocales }

\* The voices of a catalog, named by their position in it.
catalog_of(lists) ==
  [ i \in 1..Len(lists) |->
      [ name                      |-> i,
        language_codes            |-> lists[i],
        ssml_gender               |-> "FEMALE",
        natural_sample_rate_hertz |-> 24000 ] ]

\* Every catalog of at most MaxVoices voices.
Catalogs ==
  { catalog_of(lists) : lists \in UNION { [1..n -> LocaleLists] : n \in 0..MaxVoices } }

\* The catalogs of the main specification: none, one voice that is filtered
\* out ("fr-FR"), one voice that is kept ("fr-FR", "EN-gb"), and one voice
\* whose first locale code is written with the Greek capitals epsilon and nu
\* followed by "-US" and whose second is "RU".
SomeCatalogs ==
  { catalog_of(<<>>),
    catalog_of(<< << << 102, 114, 45, 70, 82 >> >> >>),
    catalog_of(<< << << 102, 114, 45, 70, 82 >>, << 69, 78, 45, 103, 98 >> >> >>),
    catalog_of(<< << << 917, 925, 45, 85, 83 >>, << 82, 85 >> >> >>) }

\* Outcomes of the external list_voices call: a response, a
\* GoogleAPICallError, any other exception.
ListOutcomes == { "ok", "api_error", "exception" }

\* ----------------------------------------------------------------- actions

\* Request r arrives.  The requests are numbered in their order of arrival.
arrives(r) ==
  /\ reqs[r].pc = "idle"
  /\ \A p \in DOMAIN reqs : p < r => reqs[p].pc # "idle"

\* lifespan, up to its yield: the pool is created before requests are served.
lifespan ==
  /\ db_pool = "None"
  /\ \A r \in DOMAIN reqs : reqs[r].pc = "idle"
  /\ db_pool' = "open"
  /\ UNCHANGED << tts_client, held, activity_log, reqs >>

\* The dict that root() returns, each key with the type of its value: the
\* value of "endpoints" is itself a dict.
root_result ==
  [ message |-> "str", version |-> "str", endpoints |-> "dict" ]

\* response_model=Dict[str, str]: every value of the returned dict is a str.
response_model_valid(result) ==
  \A k \in DOMAIN result : result[k] = "str"

\* The response of GET /: FastAPI validates what root() returns against the
\* response_model of the route and answers 500 when that fails.
root_response ==
  IF response_model_valid(root_result)
  THEN [ http |-> 200, detail |-> "" ]
  ELSE [ http |-> 500, detail |-> "Internal Server Error" ]

\* GET /
root(r) ==
  /\ arrives(r)
  /\ reqs' = [ reqs EXCEPT ![r] =
                 Respond([ @ EXCEPT !.endpoint = "root" ],
                         root_response.http, root_response.detail) ]
  /\ UNCHANGED << tts_client, db_pool, held, activity_log >>

\* The response of GET /health.
health_response(client) ==
  IF client = "None"
  THEN [ http |-> 503, detail |-> "TTS client not initialized" ]
  ELSE [ http |-> 200, detail |-> "" ]

\* GET /health
health_check(r) ==
  /\ arrives(r)
  /\ LET a == health_response(tts_client)
     IN  reqs' = [ reqs EXCEPT ![r] =
                     Respond([ @ EXCEPT !.endpoint = "health" ], a.http, a.detail) ]
  /\ UNCHANGED << tts_client, db_pool, held, activity_log >>

\* GET /voices without its guard on tts_client.
voices_response_unguarded(client, outcome, catalog) ==
  LET got == get_supported_voices(client, outcome, catalog)
  IN  [ http |-> 200, detail |-> "", voices |-> got.voices, called |-> client # "None" ]

\* The response of GET /voices; "called" tells whether the external
\* list_voices call was made.  The except clauses of list_voices map what
\* get_supported_voices raises.
voices_response(client, outcome, catalog) ==
  IF client = "None"
  THEN [ http |-> 503,
         detail |-> "TTS client not initialized. Check Google Cloud credentials.",
         voices |-> <<>>, called |-> FALSE ]
  ELSE LET got == get_supported_voices(client, outcome, catalog)
       IN  CASE got.raised = "api_error" ->
                  [ http |-> 503, detail |-> "Google API error: {e}",
                    voices |-> <<>>, called |-> TRUE ]
             [] got.raised = "exception" ->
                  [ http |-> 500, detail |-> "Failed to fetch voices",
                    voices |-> <<>>, called |-> TRUE ]
             [] OTHER ->
                  [ http |-> 200, detail |-> "",
                    voices |-> got.voices, called |-> TRUE ]

\* GET /voices
list_voices(r, catalogs) ==
  /\ arrives(r)
  /\ \E outcome \in ListOutcomes, c \in catalogs :
       LET cat == IF outcome = "ok" THEN c ELSE <<>>
           a   == voices_response(tts_client, outcome, cat)
       IN  reqs' = [ reqs EXCEPT ![r] =
                       Respond([ @ EXCEPT !.endpoint = "voices",
                                          !.listed   = IF a.called THEN outcome ELSE "none",
                                          !.catalog  = IF a.called THEN cat ELSE <<>>,
                                          !.voices   = a.voices ],
                               a.http, a.detail) ]
  /\ UNCHANGED << tts_client, db_pool, held, activity_log >>

\* A POST to a synthesis endpoint, from the body to the first await that
\* suspends the handler.  FastAPI builds the TTSRequest from the body and
\* answers 422 without calling the handler when that fails.  The handler
\* answers 503 without a client and calls the external capability otherwise.
orchestrate(r, endpoint, bodies, synths, hosts, dumps) ==
  /\ arrives(r)
  /\ \E b \in bodies :
       LET v == TTSRequest(b)
           q == [ reqs[r] EXCEPT !.endpoint = endpoint, !.body = b ]
           h == [ q EXCEPT !.request = v.request ]
       IN  IF ~v.ok
           THEN reqs' = [ reqs EXCEPT ![r] = Respond(q, 422, "validation error") ]
           ELSE IF tts_client = "None"
           THEN reqs' = [ reqs EXCEPT ![r] =
                  Respond(h, 503,
                    "TTS client not initialized. Check Google Cloud credentials.") ]
           ELSE \E o \in synths, h1 \in hosts, d1 \in dumps, h2 \in hosts, d2 \in dumps :
                  reqs' = [ reqs EXCEPT ![r] = run_handler(h, o, db_pool, h1, d1, h2, d2) ]
  /\ UNCHANGED << tts_client, db_pool, held, activity_log >>

\* POST /tts
synthesize_speech(r, bodies, synths, hosts, dumps) ==
  orchestrate(r, "tts", bodies, synths, hosts, dumps)

\* POST /tts/base64
synthesize_speech_base64(r, bodies, synths, hosts, dumps) ==
  orchestrate(r, "tts_base64", bodies, synths, hosts, dumps)

\* log_activity: db_pool.acquire() returns a connection when the pool has one
\* left, or raises (the store cannot be reached); the except clause swallows
\* that and the handler goes on.
acquire(r) ==
  /\ reqs[r].pc = "acquire"
  /\ \/ /\ held < max_size
        /\ held' = held + 1
        /\ reqs' = [ reqs EXCEPT
                      ![r].pc = "execute",
                      ![r].log_calls[Len(reqs[r].log_calls)].acquired = @ + 1 ]
     \/ /\ held' = held
        /\ reqs' = [ reqs EXCEPT ![r] = after_log(end_log(@, "swallowed")) ]
  /\ UNCHANGED << tts_client, db_pool, activity_log >>

\* log_activity: conn.execute inserts the row, or raises.
execute(r) ==
  /\ reqs[r].pc = "execute"
  /\ \E ok \in BOOLEAN :
       /\ reqs' = [ reqs EXCEPT
                     ![r].pc = "release",
                     ![r].insert_ok = ok,
                     ![r].log_calls[Len(reqs[r].log_calls)].inserts =
                        IF ok THEN @ + 1 ELSE @ ]
       /\ activity_log' =
            IF ok
            THEN activity_log \cup
                   { [ req           |-> r,
                       call          |-> Len(reqs[r].log_calls),
                       activity_type |-> reqs[r].log_calls[Len(reqs[r].log_calls)].activity_type,
                       status        |-> reqs[r].log_calls[Len(reqs[r].log_calls)].status ] }
            ELSE activity_log
  /\ UNCHANGED << tts_client, db_pool, held >>

\* log_activity: the `async with` block is left, the connection is released,
\* what conn.execute raised is swallowed, and the handler goes on.
release(r) ==
  /\ reqs[r].pc = "release"
  /\ held' = release_conn(held, reqs[r].insert_ok)
  /\ reqs' = [ reqs EXCEPT ![r] =
                 after_log(end_log(@, IF @.insert_ok THEN "written" ELSE "swallowed")) ]
  /\ UNCHANGED << tts_client, db_pool, activity_log >>

\* ------------------------------------------------------------ specifications

\* After import: the client was built or not, no pool yet, n requests to come.
InitWith(n, clients, pools) ==
  /\ tts_client \in clients
  /\ db_pool \in pools
  /\ held = 0
  /\ activity_log = {}
  /\ reqs = [ r \in 1..n |-> Idle ]

Init == InitWith(NumReqs, { "client", "None" }, { "None" })

Next ==
  \/ lifespan
  \/ \E r \in DOMAIN reqs : root(r)
  \/ \E r \in DOMAIN reqs : health_check(r)
  \/ \E r \in DOMAIN reqs : list_voices(r, SomeCatalogs)
  \/ \E r \in DOMAIN reqs : synthesize_speech(r, Bodies, SynthOutcomes, Returns, Returns)
  \/ \E r \in DOMAIN reqs : synthesize_speech_base64(r, Bodies, SynthOutcomes, Returns, Returns)
  \/ \E r \in DOMAIN reqs : acquire(r)
  \/ \E r \in DOMAIN reqs : execute(r)
  \/ \E r \in DOMAIN reqs : release(r)

Spec == Init /\ [][Next]_vars

\* The pool under load: more concurrent /tts requests than the pool has
\* connections, after lifespan startup.
InitPool == InitWith(PoolReqs, { "client" }, { "open" })

NextPool ==
  \/ \E r \in DOMAIN reqs : synthesize_speech(r, PoolBodies, { "ok" }, { "ok" }, { "ok" })
  \/ \E r \in DOMAIN reqs : acquire(r)
  \/ \E r \in DOMAIN reqs : execute(r)
  \/ \E r \in DOMAIN reqs : release(r)

SpecPool == InitPool /\ [][NextPool]_vars

\* The voice catalog filter on every catalog within the bounds.
InitVoices == InitWith(1, { "client", "None" }, { "None" })

NextVoices == \E r \in DOMAIN reqs : list_voices(r, Catalogs)

SpecVoices == InitVoices /\ [][NextVoices]_vars

\* ------------------------------------------------------------------ claims

SynthEndpoints == { "tts", "tts_base64" }

SynthFailures == { "invalid_argument", "api_error", "exception" }

\* The status that the synthesis outcome maps to.
MappedStatus(outcome) ==
  CASE outcome = "ok"               -> 200
    [] outcome = "invalid_argument" -> 400
    [] outcome = "api_error"        -> 503
    [] OTHER                        -> 500

\* The details that carry no exception text.
GenericDetails ==
  { "Text-to-speech synthesis failed", "Text-to-speech base64 synthesis failed" }

\* The requests that are answered and whose external synthesize call failed.
FailedSynth ==
  { r \in DOMAIN reqs : reqs[r].pc = "done" /\ reqs[r].synth \in SynthFailures }

\* C1: a failure of the external synthesize call is answered 400 with
\* activity status invalid_argument when it is an invalid argument, 503 with
\* api_error when it is another API-call error, and 500 with error and a fixed
\* generic detail otherwise.
C1_ErrorMapping ==
  \A r \in FailedSynth :
    LET q == reqs[r]
    IN  /\ q.http = MappedStatus(q.synth)
        /\ q.log_calls # <<>>
        /\ q.log_calls[1].status = branch_of(q.synth)
        /\ q.synth = "exception" => q.detail \in GenericDetails
        /\ q.synth = "invalid_argument" => q.http # 503

\* C2: a synthesis request that reaches the external call makes exactly one
\* log_activity call, of the endpoint's activity type, with status success
\* exactly when the synthesis succeeded.
C2_OneLogCall ==
  \A r \in DOMAIN reqs :
    LET q == reqs[r]
    IN  (q.pc = "done" /\ q.synth # "none") =>
          /\ Len(q.log_calls) = 1
          /\ q.log_calls[1].activity_type = q.endpoint
          /\ (q.log_calls[1].status = "success") <=> (q.synth = "ok")

\* C3: log_activity never raises to its caller, and the handler answers what
\* it would answer with a working store.
C3_LoggerNeverRaises ==
  \A r \in DOMAIN reqs :
    LET q == reqs[r]
    IN  /\ \A i \in DOMAIN q.log_calls : q.log_calls[i].result # "raised"
        /\ (q.pc = "done" /\ q.synth # "none") => q.http = MappedStatus(q.synth)

\* A text with no whitespace at either end and 1 to 5000 characters.
Trimmed(text) ==
  /\ text.given
  /\ text.lead = 0 /\ text.trail = 0
  /\ text.body >= 1 /\ text.body <= max_length

\* C4: a text that is absent, empty or whitespace-only is rejected, and the
\* text that an accepted request hands to the external call and to the
\* activity log is trimmed and has 1 to 5000 characters.
C4_TextTrimmed ==
  \A r \in DOMAIN reqs :
    LET q == reqs[r]
    IN  (q.pc # "idle" /\ q.endpoint \in SynthEndpoints) =>
          /\ (~q.body.text.given \/ q.body.text.body = 0) => q.http = 422
          /\ q.http # 422 => Trimmed(q.request.text)
          /\ \A i \in DOMAIN q.synth_args : Trimmed(q.synth_args[i].text)
          /\ \A i \in DOMAIN q.log_calls : Trimmed(q.log_calls[i].request.text)

\* C5: a failed external list_voices call is answered 503 when it is an
\* API-call error and 500 otherwise, never 200 with an empty list.
C5_VoicesFailure ==
  \A r \in DOMAIN reqs :
    LET q == reqs[r]
    IN  (q.pc = "done" /\ q.endpoint = "voices") =>
          /\ q.listed = "api_error" => q.http = 503
          /\ q.listed = "exception" => q.http = 500
          /\ q.listed \in { "api_error", "exception" } =>
               ~(q.http = 200 /\ q.voices = <<>>)

\* Request r made no call of the external capability.
NoExternalCall(q) ==
  q.synth = "none" /\ q.synth_args = <<>> /\ q.listed = "none"

\* The body meets every constraint of the request.
WellFormed(body) ==
  /\ body.text.given
  /\ body.text.lead + body.text.body + body.text.trail \in 1..max_length
  /\ body.voice.given
  /\ body.speed \in speed_ge..speed_le
  /\ body.pitch \in pitch_ge..pitch_le

\* GET / reads neither the client nor the pool: it is answered the same way in
\* every state, 500 because what root() returns fails its response_model.
RootUnaffected ==
  \A r \in DOMAIN reqs :
    (reqs[r].pc # "idle" /\ reqs[r].endpoint = "root") =>
      /\ reqs[r].pc = "done"
      /\ reqs[r].http = 500
      /\ reqs[r].detail = "Internal Server Error"

\* C6 as stated: without a client every request to /health, /voices, /tts and
\* /tts/base64 is answered 503 with no external call, and / is unaffected.
C6_DegradedAll503 ==
  /\ RootUnaffected
  /\ tts_client = "None" =>
       \A r \in DOMAIN reqs :
         LET q == reqs[r]
         IN  q.pc # "idle" =>
               /\ q.pc = "done"
               /\ NoExternalCall(q)
               /\ q.endpoint # "root" => q.http = 503

\* C6 as amended: without a client every request to /health and /voices, and
\* every request to /tts and /tts/base64 whose body passes validation, is
\* answered 503; a body that fails validation is answered 422; no external
\* call is made, /voices never answers 200, and / is answered as it is with
\* a client.
C6_DegradedValid503 ==
  /\ RootUnaffected
  /\ tts_client = "None" =>
       \A r \in DOMAIN reqs :
         LET q == reqs[r]
         IN  q.pc # "idle" =>
               /\ q.pc = "done"
               /\ NoExternalCall(q)
               /\ q.log_calls = <<>>
               /\ q.endpoint \in { "health", "voices" } => q.http = 503
               /\ q.endpoint \in SynthEndpoints =>
                    q.http = IF WellFormed(q.body) THEN 503 ELSE 422

\* C6 witness: without a client, /voices has answered 503.
C6_Witness ==
  /\ tts_client = "None"
  /\ \E r \in DOMAIN reqs :
       reqs[r].pc = "done" /\ reqs[r].endpoint = "voices" /\ reqs[r].http = 503

\* C7: a speed outside [0.25, 4.0] or a pitch outside [-20.0, 20.0] is
\* rejected whatever the other fields are, and a rejected request is over
\* with no external synthesize call and no log_activity call.
C7_RangeRejected ==
  \A r \in DOMAIN reqs :
    LET q == reqs[r]
    IN  (q.pc # "idle" /\ q.endpoint \in SynthEndpoints) =>
          /\ (q.body.speed < speed_ge \/ q.body.speed > speed_le) => q.http = 422
          /\ (q.body.pitch < pitch_ge \/ q.body.pitch > pitch_le) => q.http = 422
          /\ q.http = 422 =>
               /\ q.pc = "done"
               /\ NoExternalCall(q)
               /\ q.log_calls = <<>>
               /\ \A row \in activity_log : row.req # r

\* C7 witness: a request whose only fault is its speed has been rejected.
C7_Witness ==
  \E r \in DOMAIN reqs :
    /\ reqs[r].endpoint = "tts"
    /\ reqs[r].http = 422
    /\ reqs[r].body.speed > speed_le
    /\ reqs[r].body.text = Text(0, 1, 0)
    /\ reqs[r].body.voice.given
    /\ reqs[r].body.pitch = pitch_le

\* The characters of a locale code before its first "-".
LanguagePrefix(code) ==
  LET n == CHOOSE n \in 0..Len(code) :
             /\ \A i \in 1..n : code[i] # 45
             /\ n = Len(code) \/ code[n + 1] = 45
  IN  SubSeq(code, 1, n)

\* The language prefix is en, ru or he in any letter case: e or E, then n or
\* N; r or R, then u or U; h or H, then e or E.
Accepted(code) ==
  LET p == LanguagePrefix(code)
  IN  /\ Len(p) = 2
      /\ \/ p[1] \in { 101, 69 } /\ p[2] \in { 110, 78 }
         \/ p[1] \in { 114, 82 } /\ p[2] \in { 117, 85 }
         \/ p[1] \in { 104, 72 } /\ p[2] \in { 101, 69 }

\* The positions of the accepted locale codes of a voice.
Matches(voice) ==
  { i \in DOMAIN voice.language_codes : Accepted(voice.language_codes[i]) }

\* The catalog positions of the voices with an accepted locale code.
Kept(catalog) == { i \in DOMAIN catalog : Matches(catalog[i]) # {} }

\* `out` holds one entry for each kept voice and no other, in catalog order,
\* each with the first accepted locale code of its voice.
FilterOf(catalog, out) ==
  /\ Len(out) = Cardinality(Kept(catalog))
  /\ \A k \in DOMAIN out :
       /\ out[k].name \in Kept(catalog)
       /\ \A j \in 1..(k - 1) : out[j].name < out[k].name
       /\ LET v == catalog[out[k].name]
              m == CHOOSE i \in Matches(v) : \A j \in Matches(v) : i <= j
          IN  /\ out[k].language_code = v.language_codes[m]
              /\ out[k].gender = v.ssml_gender
              /\ out[k].natural_sample_rate = v.natural_sample_rate_hertz

\* C8: the catalog filter emits exactly one VoiceInfo for each voice with an
\* accepted locale code and none for the others, with the first accepted
\* locale code of the voice, in catalog order.
C8_CatalogFilter ==
  \A r \in DOMAIN reqs :
    LET q == reqs[r]
    IN  (q.pc = "done" /\ q.endpoint = "voices" /\ q.listed = "ok") =>
          /\ q.http = 200
          /\ FilterOf(q.catalog, q.voices)

\* C8 witness: a catalog whose first voice has no accepted locale code and
\* whose second voice has two has been filtered to one entry.
C8_Witness ==
  \E r \in DOMAIN reqs :
    LET q == reqs[r]
    IN  /\ q.pc = "done" /\ q.listed = "ok"
        /\ Len(q.catalog) = 2
        /\ Matches(q.catalog[1]) = {}
        /\ Cardinality(Matches(q.catalog[2])) = 2
        /\ Len(q.voices) = 1

\* The requests that hold a connection of the pool.
Holders == { r \in DOMAIN reqs : reqs[r].pc \in { "execute", "release" } }

\* The requests with a log_activity call in progress.
Logging == { r \in DOMAIN reqs : reqs[r].pc \in { "acquire", "execute", "release" } }

\* C9: a log_activity call holds at most one connection, makes at most one
\* insert and holds nothing once it has returned, also when the insert
\* failed; the connections held never exceed max_size and are zero when no
\* log_activity call is in progress.
C9_PoolBounded ==
  /\ held = Cardinality(Holders)
  /\ held <= max_size
  /\ Logging = {} => held = 0
  /\ \A r \in DOMAIN reqs : \A i \in DOMAIN reqs[r].log_calls :
       LET c == reqs[r].log_calls[i]
       IN  /\ c.acquired <= 1
           /\ c.inserts <= c.acquired
           /\ c.result = "written" => c.inserts = 1
           /\ c.result = "swallowed" => c.inserts = 0

\* C9 witness: every connection of the pool is held while a call whose
\* insert failed has returned.
C9_Witness ==
  /\ held = max_size
  /\ \E r \in DOMAIN reqs :
       /\ reqs[r].pc = "done"
       /\ reqs[r].log_calls[1].acquired = 1
       /\ reqs[r].log_calls[1].inserts = 0
       /\ reqs[r].log_calls[1].result = "swallowed"

\* C10: when the external synthesize call failed, the log_activity call has
\* finished before the error is answered, and the error answered is the one
\* mapped from the synthesis failure, not one that the logger produced.
C10_LogBeforeError ==
  \A r \in FailedSynth :
    LET q == reqs[r]
    IN  /\ Len(q.log_calls) = 1
        /\ q.log_calls[1].result \in { "written", "noop", "swallowed" }
        /\ q.detail # "Internal Server Error"
        /\ q.http = MappedStatus(q.synth)

\* What C1, C2 and C10 say holds of every request none of whose log_activity
\* calls raised: one call, of the endpoint's type and the outcome's status,
\* finished before the answer, and the answer mapped from the outcome.
WhenLoggerReturns ==
  \A r \in DOMAIN reqs :
    LET q == reqs[r]
    IN  ( /\ q.pc = "done"
          /\ q.synth # "none"
          /\ \A i \in DOMAIN q.log_calls : q.log_calls[i].result # "raised" ) =>
          /\ Len(q.log_calls) = 1
          /\ q.log_calls[1].activity_type = q.endpoint
          /\ q.log_calls[1].status = branch_of(q.synth)
          /\ q.log_calls[1].result \in { "written", "noop", "swallowed" }
          /\ q.http = MappedStatus(q.synth)
          /\ q.synth = "exception" => q.detail \in GenericDetails

====
